---- MODULE Spec2Model ----
(***************************************************************************)
(* Risk aggregation engine of src/main.py: the taxonomy lookup, the        *)
(* per-vendor scoring loop, the fold of every vendor result into the       *)
(* combined dataset, and the summary metrics.                               *)
(*                                                                          *)
(* Values are JSON values as Python sees them after json.load.  A string    *)
(* is a sequence of chunks, each chunk either the whitespace chunk " " or   *)
(* a whitespace-free run of characters, so that str.strip() is modelled by  *)
(* what it does.  A Python dict is the sequence of its (key, value) pairs   *)
(* in insertion order, keys unique.  A score kept as a float percentage     *)
(* with two decimals is the integer number of hundredths of a percent.      *)
(***************************************************************************)
EXTENDS Integers, Sequences, FiniteSets, TLC

VARIABLES risk_data, combined_data, metrics, processed, pc

vars == <<risk_data, combined_data, metrics, processed, pc>>

(***************************************************************************)
(* Bounds                                                                   *)
(***************************************************************************)
MaxVendors == 2

MaxItems == 2

(***************************************************************************)
(* JSON values                                                              *)
(***************************************************************************)
Str(s) == [t |-> "str", s |-> s]

Num(n) == [t |-> "num", n |-> n]

Null == [t |-> "null"]

Obj(d) == [t |-> "dict", d |-> d]

Arr(l) == [t |-> "list", l |-> l]

\* The content of a file that json.load rejects.
Unparseable == [t |-> "invalid"]

\* Python dict operations on a sequence of <<key, value>> pairs.
Has(d, k) == \E i \in 1..Len(d) : d[i][1] = k

Get(d, k, default) ==
    IF Has(d, k) THEN d[CHOOSE i \in 1..Len(d) : d[i][1] = k][2] ELSE default

Put(d, k, v) ==
    IF Has(d, k)
    THEN [i \in 1..Len(d) |-> IF d[i][1] = k THEN <<k, v>> ELSE d[i]]
    ELSE Append(d, <<k, v>>)

\* A dict compared as a mapping: its set of pairs.
AsMapping(d) == {d[i] : i \in 1..Len(d)}

\* str.strip(): drop the leading and the trailing whitespace chunks.
IsSpace(c) == c = " "

RECURSIVE LStrip(_)
LStrip(s) == IF s # <<>> /\ IsSpace(Head(s)) THEN LStrip(Tail(s)) ELSE s

RECURSIVE RStrip(_)
RStrip(s) ==
    IF s # <<>> /\ IsSpace(s[Len(s)]) THEN RStrip(SubSeq(s, 1, Len(s) - 1)) ELSE s

Strip(s) == RStrip(LStrip(s))

(***************************************************************************)
(* Field names and literals of the source                                   *)
(***************************************************************************)
KQuestion == <<"Question">>

KAnswer == <<"Answer">>

KCategory == <<"Category">>

KSubCategory == <<"Sub", " ", "Category">>

KRiskLevel == <<"Risk", " ", "Level">>

KExpected == <<"Expected">>

Unknown == Str(<<"Unknown">>)

High == Str(<<"High">>)

Medium == Str(<<"Medium">>)

Low == Str(<<"Low">>)

Yes == Str(<<"Yes">>)

No == Str(<<"No">>)

EmptyStr == Str(<<>>)

\* The key of the scores bucket, which shares the container with the
\* question records (line 90).
SystemRiskScoresKey == <<"system_risk_scores">>

\* The keys of the other two buckets (lines 91 and 92).
CategoryScoresKey == <<"category_scores">>

MissedControlsFrequencyKey == <<"missed_controls_frequency">>

(***************************************************************************)
(* get_risk_score, find_risk_data                                           *)
(***************************************************************************)
\* A list or a dict cannot be a dict key: {...}.get(risk_level, 0) raises.
Unhashable(v) == v.t \in {"list", "dict"}

\* get_risk_score with 1, not 0, for a level the table does not hold.
get_risk_score_default_one(risk_level) ==
    IF risk_level = High THEN 3
    ELSE IF risk_level = Medium THEN 2
    ELSE 1

get_risk_score(risk_level) ==
    IF risk_level = High THEN 3
    ELSE IF risk_level = Medium THEN 2
    ELSE IF risk_level = Low THEN 1
    ELSE 0

find_risk_data(rd, question) ==
    IF rd.t = "dict" THEN Get(rd.d, question, Obj(<<>>))
    ELSE IF rd.t = "list"
         THEN LET hits == {i \in 1..Len(rd.l) :
                              Get(rd.l[i].d, KQuestion, Null) = Str(question)}
              IN  IF hits = {} THEN Obj(<<>>)
                  ELSE rd.l[CHOOSE i \in hits : \A j \in hits : i <= j]
         ELSE Obj(<<>>)

(***************************************************************************)
(* process_vendor_data                                                      *)
(***************************************************************************)
\* The locals of process_vendor_data before the loop (lines 32-36).
InitialLocals ==
    [combined_data |-> <<>>, vendor_risk_score |-> 0, max_possible_score |-> 0,
     category_scores |-> <<>>, missed_controls |-> <<>>]

\* Line 38.
ItemsOf(data) ==
    IF data.t = "list" THEN data.l
    ELSE IF data.t = "dict" THEN <<data>>
    ELSE <<>>

\* data[item] of line 43: a list indexed by a str raises TypeError, a dict
\* raises KeyError on a key it does not hold.
Subscript(data, item) ==
    IF data.t = "dict" /\ Has(data.d, item.s)
    THEN [raised |-> FALSE, value |-> Get(data.d, item.s, Null)]
    ELSE [raised |-> TRUE, value |-> Null]

\* Lines 42-47: the item as (question, answer), or the item left out
\* ("continue"), or an exception ("raise").
Normalize(item, data) ==
    IF item.t = "str"
    THEN LET a == Subscript(data, item)
         IN  IF a.raised
             THEN [kind |-> "raise", question |-> <<>>, answer |-> Null]
             ELSE [kind |-> "ok", question |-> Strip(item.s), answer |-> a.value]
    ELSE IF item.t = "dict"
         THEN LET q == Get(item.d, KQuestion, EmptyStr)
              IN  IF q.t # "str"
                  THEN [kind |-> "raise", question |-> <<>>, answer |-> Null]
                  ELSE [kind |-> "ok", question |-> Strip(q.s),
                        answer |-> Get(item.d, KAnswer, EmptyStr)]
         ELSE [kind |-> "continue", question |-> <<>>, answer |-> Null]

\* Lines 49-57: the taxonomy entry of the question, or the default entry.
DefaultRiskInfo ==
    Obj(<< <<KCategory, Unknown>>, <<KSubCategory, Unknown>>,
           <<KRiskLevel, Medium>>, <<KExpected, Yes>> >>)

ResolveRiskInfo(rd, question) ==
    LET risk_info == find_risk_data(rd, question)
    IN  IF risk_info.d = <<>> THEN DefaultRiskInfo ELSE risk_info

\* Lines 59-66.
ScoredRecord(question, risk_info, vendor_name, answer) ==
    [question |-> Str(question),
     category |-> Get(risk_info.d, KCategory, Unknown),
     sub_category |-> Get(risk_info.d, KSubCategory, Unknown),
     risk_level |-> Get(risk_info.d, KRiskLevel, Medium),
     expected_outcome |-> Get(risk_info.d, KExpected, Yes),
     answers |-> << <<vendor_name, answer>> >>]

\* Lines 40-77: one iteration of the loop over the items.
ProcessItem(loc, item, data, rd, vendor_name) ==
    LET n == Normalize(item, data)
    IN  IF n.kind # "ok" THEN loc
        ELSE
        LET risk_info == ResolveRiskInfo(rd, n.question)
            level == Get(risk_info.d, KRiskLevel, Medium)
            recorded == [loc EXCEPT !.combined_data =
                            Put(@, n.question,
                                ScoredRecord(n.question, risk_info, vendor_name, n.answer))]
        IN  IF Unhashable(level) THEN recorded
            ELSE
            LET risk_score == get_risk_score(level)
                category == Get(risk_info.d, KCategory, Unknown)
                missed == n.answer # Get(risk_info.d, KExpected, Yes)
            IN  [recorded EXCEPT
                    !.vendor_risk_score = IF missed THEN @ + risk_score ELSE @,
                    !.category_scores =
                        IF missed THEN Put(@, category, Get(@, category, 0) + risk_score)
                        ELSE @,
                    !.missed_controls = IF missed THEN Append(@, n.question) ELSE @,
                    !.max_possible_score = @ + risk_score]

RECURSIVE RunItems(_, _, _, _, _)
RunItems(loc, items, data, rd, vendor_name) ==
    IF items = <<>> THEN loc
    ELSE RunItems(ProcessItem(loc, Head(items), data, rd, vendor_name),
                  Tail(items), data, rd, vendor_name)

\* The locals when the loop of lines 40-77 ends.
FinalLocals(data, rd, vendor_name) ==
    RunItems(InitialLocals, ItemsOf(data), data, rd, vendor_name)

\* round(x, 2) of x = n / m percent, in hundredths of a percent (n = 10000 *
\* the ratio's numerator): to nearest, a tie to the even neighbour.
Round2(n, m) ==
    LET q == n \div m
        r == n % m
    IN  IF 2 * r > m \/ (2 * r = m /\ q % 2 = 1) THEN q + 1 ELSE q

\* percentage_risk_score with 100, not 0, when nothing could be scored.
percentage_risk_score_else_full(vendor_risk_score, max_possible_score) ==
    IF max_possible_score > 0
    THEN Round2(10000 * vendor_risk_score, max_possible_score)
    ELSE 10000

\* Lines 79 and 83.
percentage_risk_score(vendor_risk_score, max_possible_score) ==
    IF max_possible_score > 0
    THEN Round2(10000 * vendor_risk_score, max_possible_score)
    ELSE 0

\* Lines 81-86.
process_vendor_data(data, rd, vendor_name) ==
    LET loc == FinalLocals(data, rd, vendor_name)
    IN  [combined_data |-> loc.combined_data,
         vendor_risk_score |->
             percentage_risk_score(loc.vendor_risk_score, loc.max_possible_score),
         category_scores |-> loc.category_scores,
         missed_controls |-> loc.missed_controls]

(***************************************************************************)
(* combine_json_files_with_scores                                           *)
(***************************************************************************)
\* Lines 89-92: the accumulator before the first file.  The source keeps
\* the question records and the three buckets in one defaultdict, the
\* buckets under the keys 'system_risk_scores', 'category_scores' and
\* 'missed_controls_frequency'; here the buckets are three fields and the
\* entries under every other key are the field questions.  The values of
\* the category bucket are JSON values: the category scores of a vendor are
\* an object.
EmptyCombined ==
    [questions |-> <<>>, system_risk_scores |-> <<>>,
     category_scores |-> <<>>, missed_controls_frequency |-> <<>>]

\* The default factory of line 89.
BlankRecord ==
    [question |-> EmptyStr, category |-> EmptyStr, sub_category |-> EmptyStr,
     risk_level |-> EmptyStr, expected_outcome |-> EmptyStr, answers |-> <<>>]

\* combined_data[key] on the defaultdict: the record is created when absent.
EnsureRecord(questions, key) ==
    IF Has(questions, key) THEN questions ELSE Append(questions, <<key, BlankRecord>>)

\* Lines 115-120 for a key that is no bucket's name.
MergeRecord(questions, key, rec, vendor_name) ==
    LET present == EnsureRecord(questions, key)
        old == Get(present, key, BlankRecord)
    IN  Put(present, key,
            [question |-> rec.question,
             category |-> rec.category,
             sub_category |-> rec.sub_category,
             risk_level |-> rec.risk_level,
             expected_outcome |-> rec.expected_outcome,
             answers |-> Put(old.answers, vendor_name,
                             Get(rec.answers, vendor_name, Null))])

\* Lines 115-120 for the key 'category_scores': combined_data[key] is the
\* bucket of line 91, a defaultdict, so ['answers'] is created in it when
\* absent, and the five fields are written beside the vendors' entries.
MergeIntoCategoryBucket(bucket, rec, vendor_name) ==
    LET old == Get(bucket, "answers", Obj(<<>>))
        b1 == Put(bucket, "answers",
                  Obj(Put(old.d, vendor_name, Get(rec.answers, vendor_name, Null))))
        b2 == Put(b1, "question", rec.question)
        b3 == Put(b2, "category", rec.category)
        b4 == Put(b3, "sub_category", rec.sub_category)
        b5 == Put(b4, "risk_level", rec.risk_level)
    IN  Put(b5, "expected_outcome", rec.expected_outcome)

\* Lines 114-120: the loop over the keys of the vendor's result.  Under the
\* key 'system_risk_scores' combined_data[key] is the dict of line 90, which
\* has no 'answers' entry: KeyError.  Under 'missed_controls_frequency' it
\* is the defaultdict(int) of line 92: ['answers'] is created as 0 and the
\* assignment into that int raises TypeError.  The loop stops at the
\* exception.
RECURSIVE MergeKeys(_, _, _)
MergeKeys(cd, recs, vendor_name) ==
    IF recs = <<>> THEN [cd |-> cd, raised |-> FALSE]
    ELSE LET key == Head(recs)[1]
             rec == Head(recs)[2]
         IN  IF key = SystemRiskScoresKey THEN [cd |-> cd, raised |-> TRUE]
             ELSE IF key = MissedControlsFrequencyKey
             THEN [cd |-> [cd EXCEPT !.missed_controls_frequency =
                              IF Has(@, <<"answers">>) THEN @
                              ELSE Append(@, << <<"answers">>, 0 >>)],
                   raised |-> TRUE]
             ELSE IF key = CategoryScoresKey
             THEN MergeKeys([cd EXCEPT !.category_scores =
                                MergeIntoCategoryBucket(@, rec, vendor_name)],
                            Tail(recs), vendor_name)
             ELSE MergeKeys([cd EXCEPT !.questions =
                                MergeRecord(@, key, rec, vendor_name)],
                            Tail(recs), vendor_name)

\* Lines 125-126.
RECURSIVE CountMissed(_, _)
CountMissed(frequency, missed_controls) ==
    IF missed_controls = <<>> THEN frequency
    ELSE CountMissed(Put(frequency, Head(missed_controls),
                         Get(frequency, Head(missed_controls), 0) + 1),
                     Tail(missed_controls))

\* Lines 112-128: the fold of one vendor's result; an exception leaves what
\* was written before it and skips the rest.
FoldResult(cd, result, vendor_name) ==
    LET merged == MergeKeys(cd, result.combined_data, vendor_name)
    IN  IF merged.raised THEN merged.cd
        ELSE [questions |-> merged.cd.questions,
              system_risk_scores |->
                  Put(merged.cd.system_risk_scores, vendor_name,
                      result.vendor_risk_score),
              category_scores |->
                  Put(merged.cd.category_scores, vendor_name,
                      Obj(result.category_scores)),
              missed_controls_frequency |->
                  CountMissed(merged.cd.missed_controls_frequency,
                              result.missed_controls)]

\* Lines 96-128: one file of the folder.
FoldFile(cd, rd, vendor_name, content) ==
    IF content = Unparseable THEN cd
    ELSE FoldResult(cd, process_vendor_data(content, rd, vendor_name), vendor_name)

\* Lines 88-130 over the files in the order os.listdir gives them.
RECURSIVE combine_json_files_with_scores(_, _)
combine_json_files_with_scores(files, rd) ==
    IF files = <<>> THEN EmptyCombined
    ELSE LET last == files[Len(files)]
         IN  FoldFile(combine_json_files_with_scores(SubSeq(files, 1, Len(files) - 1), rd),
                      rd, last[1], last[2])

(***************************************************************************)
(* calculate_metrics                                                        *)
(***************************************************************************)
\* max(d, key=d.get) and min(d, key=d.get): the first key, in iteration
\* order, whose value is the largest (smallest).
FirstMax(d) ==
    d[CHOOSE i \in 1..Len(d) :
        /\ \A j \in 1..Len(d) : d[j][2] <= d[i][2]
        /\ \A j \in 1..(i - 1) : d[j][2] < d[i][2]][1]

FirstMin(d) ==
    d[CHOOSE i \in 1..Len(d) :
        /\ \A j \in 1..Len(d) : d[j][2] >= d[i][2]
        /\ \A j \in 1..(i - 1) : d[j][2] > d[i][2]][1]

\* Lines 142-144 for one record: the vendors whose answer is not the expected one.
RECURSIVE MissingVendors(_, _)
MissingVendors(answers, expected_outcome) ==
    IF answers = <<>> THEN <<>>
    ELSE LET rest == MissingVendors(Tail(answers), expected_outcome)
         IN  IF Head(answers)[2] # expected_outcome
             THEN <<Head(answers)[1]>> \o rest
             ELSE rest

\* Lines 139-144: question -> number of vendors that missed it, for the
\* questions at least one vendor missed.
RECURSIVE control_scores(_)
control_scores(questions) ==
    IF questions = <<>> THEN <<>>
    ELSE LET info == Head(questions)[2]
             missing == MissingVendors(info.answers, info.expected_outcome)
             rest == control_scores(Tail(questions))
         IN  IF missing = <<>> THEN rest
             ELSE << <<Head(questions)[1], Len(missing)>> >> \o rest

\* Lines 153-156: category -> <<sum of the scores, number of scores>>.
RECURSIVE AddCategories(_, _)
AddCategories(acc, categories) ==
    IF categories = <<>> THEN acc
    ELSE LET c == Head(categories)
             old == Get(acc, c[1], <<0, 0>>)
         IN  AddCategories(Put(acc, c[1], <<old[1] + c[2], old[2] + 1>>),
                           Tail(categories))

RECURSIVE CategoryTotals(_, _)
CategoryTotals(acc, category_scores) ==
    IF category_scores = <<>> THEN acc
    ELSE CategoryTotals(AddCategories(acc, Head(category_scores)[2].d),
                        Tail(category_scores))

\* Lines 158-160: the first category with the largest (smallest) average;
\* averages s/n are compared by cross-multiplication.
FirstMaxAverage(totals) ==
    totals[CHOOSE i \in 1..Len(totals) :
        /\ \A j \in 1..Len(totals) :
              totals[j][2][1] * totals[i][2][2] <= totals[i][2][1] * totals[j][2][2]
        /\ \A j \in 1..(i - 1) :
              totals[j][2][1] * totals[i][2][2] < totals[i][2][1] * totals[j][2][2]][1]

FirstMinAverage(totals) ==
    totals[CHOOSE i \in 1..Len(totals) :
        /\ \A j \in 1..Len(totals) :
              totals[j][2][1] * totals[i][2][2] >= totals[i][2][1] * totals[j][2][2]
        /\ \A j \in 1..(i - 1) :
              totals[j][2][1] * totals[i][2][2] > totals[i][2][1] * totals[j][2][2]][1]

\* Lines 141-142: a bucket is a dict too; when it holds the key 'answers'
\* with a number under it, .items() raises AttributeError.
BucketAnswersRaise(cd) ==
    \/ Has(cd.system_risk_scores, "answers")
    \/ Has(cd.missed_controls_frequency, <<"answers">>)

\* Line 155: an entry of the category bucket that is no dict has no .items().
CategoryItemsRaise(cd) ==
    \E k \in 1..Len(cd.category_scores) : cd.category_scores[k][2].t # "dict"

\* Lines 132-181.  max() and min() of an empty mapping raise ValueError
\* (lines 136 and 159); the handler of line 179 returns {} for every
\* exception.  The result holds the vendor, control and category extremes;
\* the averages and the top-5 lists are left out.
calculate_metrics(cd) ==
    LET scores == cd.system_risk_scores
        controls == control_scores(cd.questions)
        totals == CategoryTotals(<<>>, cd.category_scores)
    IN  IF scores = <<>> \/ BucketAnswersRaise(cd) \/ CategoryItemsRaise(cd)
        THEN <<>>
        ELSE IF totals = <<>> THEN <<>>
        ELSE << <<"highest_risk_vendor", FirstMax(scores)>>,
                <<"lowest_risk_vendor", FirstMin(scores)>>,
                <<"highest_risk_control",
                  IF controls = <<>> THEN Null ELSE Str(FirstMax(controls))>>,
                <<"lowest_risk_control",
                  IF controls = <<>> THEN Null ELSE Str(FirstMin(controls))>>,
                <<"top_category_failing", FirstMaxAverage(totals)>>,
                <<"top_category_passed", FirstMinAverage(totals)>> >>

(***************************************************************************)
(* Inputs: the taxonomy of the run and the files of the folder              *)
(***************************************************************************)
Text(chunk) == Str(<<chunk>>)

Entry(pairs) == Obj(pairs)

\* A taxonomy keyed by question text (find_risk_data, line 23).
TaxonomyMapping ==
    Obj(<< <<<<"Q1">>, Entry(<< <<KRiskLevel, High>>, <<KExpected, Yes>> >>)>> >>)

\* A taxonomy as a sequence of entries (find_risk_data, lines 25-27); the
\* second entry has no risk level and the last repeats the question of the
\* first.
TaxonomySequence ==
    Arr(<< Entry(<< <<KQuestion, Text("Q1")>>, <<KCategory, Text("Access")>>,
                    <<KSubCategory, Text("Login")>>, <<KRiskLevel, Low>>,
                    <<KExpected, No>> >>),
           Entry(<< <<KQuestion, Text("Q2")>>, <<KCategory, Text("Data")>>,
                    <<KExpected, Yes>> >>),
           Entry(<< <<KQuestion, Text("QX")>>, <<KCategory, Text("Access")>>,
                    <<KRiskLevel, Medium>>, <<KExpected, Yes>> >>),
           Entry(<< <<KQuestion, Text("Q1")>>, <<KCategory, Text("Data")>>,
                    <<KRiskLevel, High>>, <<KExpected, Yes>> >>) >>)

\* A taxonomy whose risk levels are none of High, Medium, Low: another
\* string, a list, and null.
TaxonomyOddLevels ==
    Obj(<< <<<<"Q1">>, Entry(<< <<KCategory, Text("Access")>>,
                                <<KRiskLevel, Text("Critical")>>,
                                <<KExpected, Yes>> >>)>>,
           <<<<"Q2">>, Entry(<< <<KCategory, Text("Data")>>,
                                <<KRiskLevel, Arr(<<>>)>>,
                                <<KExpected, Yes>> >>)>>,
           <<<<"QX">>, Entry(<< <<KCategory, Text("Data")>>,
                                <<KRiskLevel, Null>>,
                                <<KExpected, No>> >>)>> >>)

Taxonomies == {TaxonomyMapping, TaxonomySequence, TaxonomyOddLevels}

QA(question, answer) == Obj(<< <<KQuestion, question>>, <<KAnswer, answer>> >>)

\* The elements a vendor file's list may hold.
ItemUniverse ==
    { QA(Text("Q1"), Yes),
      QA(Text("Q1"), No),
      QA(Str(<<" ", "Q2", " ">>), No),
      QA(Text("QX"), Yes),
      QA(Str(SystemRiskScoresKey), Yes),
      QA(Str(CategoryScoresKey), No),
      Obj(<< <<KAnswer, No>> >>),
      Text("Q1") }

\* A file that is one object: a mapping from question to answer.
MappingPayloads ==
    { Obj(<< <<<<"Q1">>, Yes>> >>), Obj(<< <<<<"Q1">>, No>> >>) }

\* A file that parses to neither a list nor an object.
ScalarPayloads == { Num(42) }

\* The number of elements a file holds, counted against MaxItems.
SizeOf(content) ==
    IF content.t = "list" THEN Len(content.l)
    ELSE IF content.t = "dict" THEN 1
    ELSE 0

RECURSIVE TotalSize(_)
TotalSize(files) ==
    IF files = <<>> THEN 0 ELSE SizeOf(Head(files)[2]) + TotalSize(Tail(files))

ListPayloads(n) == {Arr(l) : l \in UNION {[1..k -> ItemUniverse] : k \in 0..n}}

\* The stems of the file names; one of them is the name of a record field.
VendorNames == <<"Acme", "question", "Beta", "Corp">>

Vendors == {VendorNames[i] : i \in 1..MaxVendors}

Seen == {processed[i][1] : i \in 1..Len(processed)}

(***************************************************************************)
(* The run: main, lines 183-193                                             *)
(***************************************************************************)
\* Lines 187-190: the taxonomy is loaded and is not empty; line 192 starts
\* the fold with the empty accumulator.
Init ==
    /\ risk_data \in Taxonomies
    /\ combined_data = EmptyCombined
    /\ metrics = <<>>
    /\ processed = <<>>
    /\ pc = "combine"

\* Lines 99-110: a file json.load rejects is left out.
SkipUnreadable(vendor_name) ==
    /\ pc = "combine"
    /\ vendor_name \notin Seen
    /\ combined_data' = FoldFile(combined_data, risk_data, vendor_name, Unparseable)
    /\ processed' = Append(processed, <<vendor_name, Unparseable>>)
    /\ UNCHANGED <<risk_data, metrics, pc>>

\* Lines 96-128 for a file that parses to data.
ProcessVendor(vendor_name, data) ==
    /\ pc = "combine"
    /\ vendor_name \notin Seen
    /\ TotalSize(processed) + SizeOf(data) <= MaxItems
    /\ combined_data' = FoldFile(combined_data, risk_data, vendor_name, data)
    /\ processed' = Append(processed, <<vendor_name, data>>)
    /\ UNCHANGED <<risk_data, metrics, pc>>

\* Line 193, once os.listdir has no more files.
CalculateMetrics ==
    /\ pc = "combine"
    /\ metrics' = calculate_metrics(combined_data)
    /\ pc' = "done"
    /\ UNCHANGED <<risk_data, combined_data, processed>>

Next ==
    \/ \E v \in Vendors : SkipUnreadable(v)
    \/ \E v \in Vendors :
          \E data \in ListPayloads(MaxItems - TotalSize(processed))
                        \cup MappingPayloads \cup ScalarPayloads :
              ProcessVendor(v, data)
    \/ CalculateMetrics

Spec == Init /\ [][Next]_vars

(***************************************************************************)
(* Notions the properties share                                             *)
(***************************************************************************)
FileCount == Len(processed)

VendorOf(i) == processed[i][1]

ContentOf(i) == processed[i][2]

FileOf(vendor_name) ==
    processed[CHOOSE i \in 1..FileCount : VendorOf(i) = vendor_name][2]

\* The locals of process_vendor_data on file i after its first j items.
PrefixLocals(i, j) ==
    RunItems(InitialLocals, SubSeq(ItemsOf(ContentOf(i)), 1, j),
             ContentOf(i), risk_data, VendorOf(i))

\* The items of the processed files that reach the taxonomy lookup.
LookedUp ==
    {s \in (1..FileCount) \X (1..MaxItems) :
        /\ s[2] <= Len(ItemsOf(ContentOf(s[1])))
        /\ Normalize(ItemsOf(ContentOf(s[1]))[s[2]], ContentOf(s[1])).kind = "ok"}

QuestionAt(s) ==
    Normalize(ItemsOf(ContentOf(s[1]))[s[2]], ContentOf(s[1])).question

AnswerAt(s) ==
    Normalize(ItemsOf(ContentOf(s[1]))[s[2]], ContentOf(s[1])).answer

Resolved == {s \in LookedUp : find_risk_data(risk_data, QuestionAt(s)).d # <<>>}

Unresolved == LookedUp \ Resolved

\* The keys of a question record (line 89).
FieldNames ==
    {"question", "category", "sub_category", "risk_level", "expected_outcome", "answers"}

BucketNames == {SystemRiskScoresKey, CategoryScoresKey, MissedControlsFrequencyKey}

\* No source asks a question whose text is the name of a bucket.
OrdinaryQuestions == \A s \in LookedUp : QuestionAt(s) \notin BucketNames

\* An item of the right shape: a record with a question text.
WellFormedItem(item) ==
    /\ item.t = "dict"
    /\ Has(item.d, KQuestion)
    /\ Get(item.d, KQuestion, Null).t = "str"

\* Every source is a sequence of well-formed records.
WellFormedSources ==
    \A i \in 1..FileCount :
        /\ ContentOf(i).t = "list"
        /\ \A k \in 1..Len(ContentOf(i).l) : WellFormedItem(ContentOf(i).l[k])

\* Item s adds w to max_possible_score and, when its answer is not the
\* expected one, w to vendor_risk_score and to the score of the category;
\* when it is the expected one, neither changes.
StepAdds(s, w, category, expected_outcome) ==
    LET before == PrefixLocals(s[1], s[2] - 1)
        after == PrefixLocals(s[1], s[2])
        answer == AnswerAt(s)
    IN  /\ after.max_possible_score = before.max_possible_score + w
        /\ IF answer # expected_outcome
           THEN /\ after.vendor_risk_score = before.vendor_risk_score + w
                /\ Get(after.category_scores, category, 0)
                      = Get(before.category_scores, category, 0) + w
           ELSE /\ after.vendor_risk_score = before.vendor_risk_score
                /\ after.category_scores = before.category_scores

(***************************************************************************)
(* C1                                                                       *)
(***************************************************************************)
IsMappingPayload(content) == content.t = "dict" /\ ~Has(content.d, KQuestion)

AsRecords(content) ==
    Arr([k \in 1..Len(content.d) |-> QA(Str(content.d[k][1]), content.d[k][2])])

\* C1: a payload that is a mapping from question text to answer is scored as
\* one item per key, the trimmed key being the question and the value the
\* answer; under the taxonomy {Q1: High, expected Yes} the payload {Q1: Yes}
\* gives the vendor the score 0.0 and no missed control, and {Q1: No} gives
\* 100.0 and missed_controls_frequency[Q1] = 1.
C1_MappingPayloadScoredPerKey ==
    /\ \A i \in 1..FileCount :
          IsMappingPayload(ContentOf(i)) =>
              FinalLocals(ContentOf(i), risk_data, VendorOf(i))
                = FinalLocals(AsRecords(ContentOf(i)), risk_data, VendorOf(i))
    /\ (risk_data = TaxonomyMapping /\ FileCount = 1
          /\ ContentOf(1) = Obj(<< <<<<"Q1">>, Yes>> >>))
        => /\ Get(combined_data.system_risk_scores, VendorOf(1), -1) = 0
           /\ combined_data.missed_controls_frequency = <<>>
    /\ (risk_data = TaxonomyMapping /\ FileCount = 1
          /\ ContentOf(1) = Obj(<< <<<<"Q1">>, No>> >>))
        => /\ Get(combined_data.system_risk_scores, VendorOf(1), -1) = 10000
           /\ Get(combined_data.missed_controls_frequency, <<"Q1">>, 0) = 1

(***************************************************************************)
(* C2                                                                       *)
(***************************************************************************)
\* The questions in the missed_controls list of some processed vendor.
MissedQuestions ==
    UNION {{FinalLocals(ContentOf(i), risk_data, VendorOf(i)).missed_controls[k] :
              k \in 1..Len(FinalLocals(ContentOf(i), risk_data, VendorOf(i)).missed_controls)} :
           i \in 1..FileCount}

\* The vendors whose recorded answer for q is not q's expected outcome.
VendorsMissing(q) ==
    LET info == Get(combined_data.questions, q, BlankRecord)
    IN  {info.answers[k][1] : k \in {k \in 1..Len(info.answers) :
                                        info.answers[k][2] # info.expected_outcome}}

\* C2: for every question in some vendor's missed_controls list,
\* missed_controls_frequency[q] is the number of distinct vendors whose
\* recorded answer for q differs from q's expected outcome.  Stated for the
\* runs whose sources are sequences of well-formed records with ordinary
\* question texts.
C2_FrequencyCountsVendors ==
    (WellFormedSources /\ OrdinaryQuestions) =>
    \A q \in MissedQuestions :
        Get(combined_data.missed_controls_frequency, q, 0)
          = Cardinality(VendorsMissing(q))

(***************************************************************************)
(* C3                                                                       *)
(***************************************************************************)
\* C3: every value of system_risk_scores lies between 0 and 100 percent, and
\* is 0 when the vendor's max_possible_score is 0.
C3_ScoreWithinPercentRange ==
    \A k \in 1..Len(combined_data.system_risk_scores) :
        LET vendor_name == combined_data.system_risk_scores[k][1]
            value == combined_data.system_risk_scores[k][2]
            loc == FinalLocals(FileOf(vendor_name), risk_data, vendor_name)
        IN  /\ 0 <= value
            /\ value <= 10000
            /\ loc.max_possible_score = 0 => value = 0

\* A vendor with a missed control, all of whose controls weigh 0, has a score.
C3_Witness ==
    \E k \in 1..Len(combined_data.system_risk_scores) :
        LET vendor_name == combined_data.system_risk_scores[k][1]
            loc == FinalLocals(FileOf(vendor_name), risk_data, vendor_name)
        IN  /\ loc.max_possible_score = 0
            /\ loc.missed_controls # <<>>
            /\ combined_data.system_risk_scores[k][2] = 0

(***************************************************************************)
(* C4                                                                       *)
(***************************************************************************)
WithoutMalformedItems(file) ==
    IF file[2].t = "list"
    THEN <<file[1], Arr(SelectSeq(file[2].l, WellFormedItem))>>
    ELSE file

\* C4: a malformed item adds nothing and the other items of its source are
\* processed as if it had not been there: the combined dataset is the one
\* the same sources give with their malformed items taken out.
C4_MalformedItemSkipped ==
    combined_data =
        combine_json_files_with_scores(
            [i \in 1..FileCount |-> WithoutMalformedItems(processed[i])], risk_data)

(***************************************************************************)
(* C5                                                                       *)
(***************************************************************************)
\* A source that loads to a sequence of records, a record or a mapping.
StructuredFile(file) == file[2].t \in {"list", "dict"}

HasNoEntry(vendor_name) ==
    /\ ~Has(combined_data.system_risk_scores, vendor_name)
    /\ ~Has(combined_data.category_scores, vendor_name)
    /\ \A k \in 1..Len(combined_data.questions) :
          ~Has(combined_data.questions[k][2].answers, vendor_name)

\* C5: a source that cannot be parsed, or is not structured data, is skipped:
\* its vendor has no key in system_risk_scores, category_scores or any
\* answers map, and the combined dataset is the one the other sources give.
C5_UnusableSourceSkipped ==
    /\ \A i \in 1..FileCount : ~StructuredFile(processed[i]) => HasNoEntry(VendorOf(i))
    /\ combined_data =
          combine_json_files_with_scores(SelectSeq(processed, StructuredFile), risk_data)

(***************************************************************************)
(* C6                                                                       *)
(***************************************************************************)
\* C6: when system_risk_scores is not empty the metrics name a vendor with
\* the largest score as highest_risk_vendor and one with the smallest as
\* lowest_risk_vendor; the empty result is returned only when it is empty.
\* Stated for the runs whose sources are sequences of well-formed records
\* with ordinary question texts.
C6_VendorExtremesReported ==
    (pc = "done" /\ WellFormedSources /\ OrdinaryQuestions) =>
        LET scores == combined_data.system_risk_scores
        IN  /\ metrics = <<>> => scores = <<>>
            /\ (scores # <<>> /\ metrics # <<>>) =>
                  \A k \in 1..Len(scores) :
                      /\ scores[k][2] <= Get(scores, Get(metrics, "highest_risk_vendor", ""), -1)
                      /\ scores[k][2] >= Get(scores, Get(metrics, "lowest_risk_vendor", ""), 10001)

(***************************************************************************)
(* C7                                                                       *)
(***************************************************************************)
\* What the combined dataset holds under the key q, read as a question
\* record: under 'category_scores' the fields are those written into the
\* bucket of that name.
HasRecordUnder(q) ==
    IF q = CategoryScoresKey THEN Has(combined_data.category_scores, "question")
    ELSE Has(combined_data.questions, q)

RecordUnder(q) ==
    IF q = CategoryScoresKey
    THEN LET bucket == combined_data.category_scores
         IN  [question |-> Get(bucket, "question", EmptyStr),
              category |-> Get(bucket, "category", EmptyStr),
              sub_category |-> Get(bucket, "sub_category", EmptyStr),
              risk_level |-> Get(bucket, "risk_level", EmptyStr),
              expected_outcome |-> Get(bucket, "expected_outcome", EmptyStr),
              answers |-> Get(bucket, "answers", Obj(<<>>)).d]
    ELSE Get(combined_data.questions, q, BlankRecord)

\* Item s, whose question the taxonomy does not hold, is in the combined
\* dataset with the default fields and the vendor's answer, and was scored
\* with weight 2 against the expected answer "Yes".
DefaultedInCombined(s) ==
    LET q == QuestionAt(s)
        info == RecordUnder(q)
        mine == FinalLocals(ContentOf(s[1]), risk_data, VendorOf(s[1])).combined_data
    IN  /\ HasRecordUnder(q)
        /\ info.question = Str(q)
        /\ info.category = Unknown
        /\ info.sub_category = Unknown
        /\ info.risk_level = Medium
        /\ info.expected_outcome = Yes
        /\ Has(info.answers, VendorOf(s[1]))
        /\ Get(info.answers, VendorOf(s[1]), Null)
             = Get(Get(mine, q, BlankRecord).answers, VendorOf(s[1]), Null)
        /\ StepAdds(s, 2, Unknown, Yes)

\* Every item of the same source that reaches the lookup has its record,
\* with the vendor's answer, in the combined dataset.
SourceFullyRecorded(i) ==
    \A s \in LookedUp :
        s[1] = i =>
            /\ HasRecordUnder(QuestionAt(s))
            /\ Has(RecordUnder(QuestionAt(s)).answers, VendorOf(i))

\* C7: a question the taxonomy does not hold does not stop processing: it is
\* in the combined dataset as a record with category and sub_category
\* "Unknown", risk_level "Medium", expected_outcome "Yes" and the vendor's
\* answer, it is scored with weight 2 against "Yes", and the other items of
\* the vendor are processed.  Stated for the vendors whose identifier is
\* not the name of a record field.
C7_UnresolvedQuestionDefaulted ==
    \A s \in Unresolved :
        VendorOf(s[1]) \notin FieldNames =>
            DefaultedInCombined(s) /\ SourceFullyRecorded(s[1])

\* The same, for the runs in which no question text is the name of a bucket.
UnresolvedQuestionDefaulted_OrdinaryText ==
    OrdinaryQuestions =>
        \A s \in Unresolved : DefaultedInCombined(s) /\ SourceFullyRecorded(s[1])

(***************************************************************************)
(* C8                                                                       *)
(***************************************************************************)
VendorIndex(vendor_name) ==
    CHOOSE i \in 1..Len(VendorNames) : VendorNames[i] = vendor_name

\* The processed files in the order of their vendors' names.
InNameOrder ==
    [k \in 1..FileCount |->
        processed[CHOOSE i \in 1..FileCount :
            Cardinality({j \in 1..FileCount :
                            VendorIndex(VendorOf(j)) < VendorIndex(VendorOf(i))}) = k - 1]]

ValueAsMapping(v) == IF v.t = "dict" THEN [t |-> "dict", d |-> AsMapping(v.d)] ELSE v

\* A combined dataset compared as mappings: no dict's insertion order counts.
CombinedAsMappings(cd) ==
    [questions |->
         {<<cd.questions[k][1],
            [cd.questions[k][2] EXCEPT !.answers = AsMapping(@)]>> :
              k \in 1..Len(cd.questions)},
     system_risk_scores |-> AsMapping(cd.system_risk_scores),
     category_scores |->
         {<<cd.category_scores[k][1], ValueAsMapping(cd.category_scores[k][2])>> :
              k \in 1..Len(cd.category_scores)},
     missed_controls_frequency |-> AsMapping(cd.missed_controls_frequency)]

\* C8: the combined dataset, compared as mappings, is the same whatever the
\* order in which the same vendor sources are processed and folded: it is
\* the one the sources give when taken in the order of their names.  Stated
\* for the runs whose sources are sequences of well-formed records.
C8_OrderOfSourcesIrrelevant ==
    WellFormedSources =>
    CombinedAsMappings(combined_data)
      = CombinedAsMappings(combine_json_files_with_scores(InNameOrder, risk_data))

\* The same, for the runs in which no question text is the name of a bucket.
OrderOfSourcesIrrelevant_OrdinaryText ==
    OrdinaryQuestions => C8_OrderOfSourcesIrrelevant

(***************************************************************************)
(* C9                                                                       *)
(***************************************************************************)
EntryAt(s) == find_risk_data(risk_data, QuestionAt(s))

\* The weight the levels High, Medium, Low carry, 0 for any other level.
TableWeight(level) ==
    IF level = High THEN 3
    ELSE IF level = Medium THEN 2
    ELSE IF level = Low THEN 1
    ELSE 0

\* C9 as stated: a resolved entry whose risk_level is absent, or is none of
\* High, Medium, Low, adds 0 to max_possible_score and, when missed, 0 to
\* vendor_risk_score and to its category's score; High, Medium, Low add 3, 2, 1.
C9_AbsentLevelWeighsNothing ==
    \A s \in Resolved :
        LET risk_info == EntryAt(s).d
        IN  StepAdds(s,
                     IF Has(risk_info, KRiskLevel)
                     THEN TableWeight(Get(risk_info, KRiskLevel, Null))
                     ELSE 0,
                     Get(risk_info, KCategory, Unknown),
                     Get(risk_info, KExpected, Yes))

\* C9, amended: a resolved entry whose risk_level is present and is none of
\* High, Medium, Low adds 0; High, Medium, Low add 3, 2, 1; an entry with no
\* risk_level is scored as Medium and adds 2.
C9_WeightByRiskLevel ==
    \A s \in Resolved :
        LET risk_info == EntryAt(s).d
        IN  StepAdds(s,
                     IF Has(risk_info, KRiskLevel)
                     THEN TableWeight(Get(risk_info, KRiskLevel, Null))
                     ELSE 2,
                     Get(risk_info, KCategory, Unknown),
                     Get(risk_info, KExpected, Yes))

\* A missed control whose entry has no risk_level, and a missed control
\* whose risk_level is a string that is none of High, Medium, Low.
C9_Witness ==
    \E s \in Resolved :
        /\ AnswerAt(s) # Get(EntryAt(s).d, KExpected, Yes)
        /\ \/ ~Has(EntryAt(s).d, KRiskLevel)
           \/ Get(EntryAt(s).d, KRiskLevel, Null) = Text("Critical")
        /\ Has(combined_data.system_risk_scores, VendorOf(s[1]))

(***************************************************************************)
(* C10                                                                      *)
(***************************************************************************)
SameEntry(before, after, key, absent) ==
    /\ Has(after, key) = Has(before, key)
    /\ Get(after, key, absent) = Get(before, key, absent)

\* What the fold of the file of vendor v leaves alone; the other vendors
\* are those whose result was folded before.
FoldFrame ==
    processed' # processed =>
        LET v == processed'[Len(processed')][1]
            old == combined_data
            new == combined_data'
        IN  /\ \A w \in {x \in Seen \ {v} : Has(old.system_risk_scores, x)} :
                  /\ \A k \in 1..Len(new.questions) :
                        SameEntry(Get(old.questions, new.questions[k][1], BlankRecord).answers,
                                  new.questions[k][2].answers, w, Null)
                  /\ SameEntry(old.system_risk_scores, new.system_risk_scores, w, -1)
                  /\ SameEntry(old.category_scores, new.category_scores, w, Null)
            /\ \A k \in 1..Len(old.questions) :
                  Has(new.questions, old.questions[k][1])
            /\ \A a, b \in 1..Len(new.questions) :
                  new.questions[a][1] = new.questions[b][1] => a = b
            /\ \A k \in 1..Len(old.missed_controls_frequency) :
                  Get(new.missed_controls_frequency,
                      old.missed_controls_frequency[k][1], 0)
                    >= old.missed_controls_frequency[k][2]

\* C10: folding vendor v's result changes only v's entries: every other
\* vendor's answers, system_risk_scores and category_scores entries stay, no
\* question record is removed, no question has two records, and no
\* missed_controls_frequency count decreases.
C10_FoldChangesOnlyOwnEntries == [][FoldFrame]_vars

\* The same, for the folds of sources in which no question text is the name
\* of a bucket.
OrdinaryQuestionsNext ==
    \A k \in 1..Len(ItemsOf(processed'[Len(processed')][2])) :
        LET n == Normalize(ItemsOf(processed'[Len(processed')][2])[k],
                           processed'[Len(processed')][2])
        IN  n.kind = "ok" => n.question \notin BucketNames

FoldChangesOnlyOwnEntries_OrdinaryText ==
    [][(processed' # processed /\ OrdinaryQuestionsNext) => FoldFrame]_vars

====
